---- MODULE Spec2Model ----
(***************************************************************************)
(* Model of the blog-post editor of src/components/EditorAfter.tsx: one    *)
(* React state value of the discriminated union EditorState, the eight     *)
(* transition handlers that close over it, and the continuations of the    *)
(* two asynchronous handlers (startSaveDraft, confirmPublish), which write *)
(* the state from the closure captured when the handler was invoked.       *)
(*                                                                         *)
(* A state value is a record whose DOMAIN is the set of properties the     *)
(* JavaScript object has at run time; object spread is modelled by Spread. *)
(*                                                                         *)
(* React re-renders between two discrete events, so a handler invoked by   *)
(* the user closes over the current state; only the continuation of an     *)
(* asynchronous handler runs with an older closure, kept in `pending`.     *)
(* The handlers are modelled as callable in every state: the `disabled`    *)
(* attributes of the buttons belong to the view, not to the handlers.      *)
(* `new Date()` is an input drawn from Dates.  lastOp, lastUpdates,        *)
(* prevKind, persisted, asked, touring and tour are history variables:     *)
(* they record which handler ran last and from which tag, what was last    *)
(* saved, with which draft the publish dialog was opened, and (under       *)
(* SpecTour) a walk through the tags; the program does not read them.      *)
(*                                                                         *)
(* PostEditorBefore of src/components/EditorBefore.tsx, the variant with   *)
(* one useState per flag, is modelled in the variables before,             *)
(* beforePending and beforeLastOp, and runs under SpecBefore.  Its         *)
(* handlers are invoked through its controls: a handler is taken only      *)
(* where its button or input is rendered and not disabled.                 *)
(***************************************************************************)
EXTENDS Integers, Sequences, FiniteSets, TLC

\* ------------------------------------------------------------------------
\* Bounds
\* ------------------------------------------------------------------------

\* How many distinct strings the user can type into a field.
MaxStrings == 2

\* How many distinct values `new Date()` can return.
MaxDate == 2

\* Cap on the number of API calls in flight.
MaxPending == 2

Alphabet == <<"", "A", "B", "C">>

Strings == {Alphabet[i] : i \in 1..MaxStrings}

Dates == 1..MaxDate

\* ------------------------------------------------------------------------
\* State
\* ------------------------------------------------------------------------

VARIABLES
    state,        \* the value held by useState<EditorState>
    pending,      \* API promises not yet settled, each with the closure of its handler
    lastOp,       \* name of the handler or continuation that ran last
    lastUpdates,  \* argument of the last updateDraft call
    prevKind,     \* state.kind when the last handler or continuation ran
    persisted,    \* title and content given to the last save call that resolved
    asked,        \* title and content of the draft the open publish request was made with
    touring,      \* whether the walk along TourOrder is being recorded
    tour,         \* how far along TourOrder the tags have been visited
    before,         \* the values held by the useState calls of PostEditorBefore
    beforePending,  \* its API promises not yet settled, each with its closure
    beforeLastOp    \* name of its handler or continuation that ran last

afterVars ==
    <<state, pending, lastOp, lastUpdates, prevKind, persisted, asked, touring, tour>>

beforeVars == <<before, beforePending, beforeLastOp>>

vars == <<afterVars, beforeVars>>

Kinds ==
    {"editing", "saving-draft", "confirming-publish", "publishing",
     "confirming-discard", "save-error", "publish-error", "draft-saved",
     "published"}

PostFields == {"title", "content"}

\* Partial<PostData>: any subset of the fields, each with a string.
PartialPostData == UNION {[fs -> Strings] : fs \in SUBSET PostFields}

NoUpdates == [f \in {} |-> ""]

TitleContent(post) == [title |-> post.title, content |-> post.content]

\* No publish request is open: none was made, or it was cancelled or failed.
NoRequest == [request |-> "none"]

\* { ...a, ...b }
Spread(a, b) ==
    [f \in DOMAIN a \cup DOMAIN b |-> IF f \in DOMAIN b THEN b[f] ELSE a[f]]

SaveErrorMessage == "Failed to save draft. Please try again."

PublishErrorMessage == "Failed to publish. Please try again."

InitialState ==
    [kind |-> "editing",
     draft |-> [title |-> "", content |-> ""],
     original |-> [title |-> "", content |-> ""]]

\* ------------------------------------------------------------------------
\* Transition handlers, as functions of the state `s` they close over
\* ------------------------------------------------------------------------

\* Mutant: the busy state saving-draft is listed with the editable states.
updateDraftWhileSaving(s, updates) ==
    IF s.kind \in {"editing", "draft-saved", "save-error", "publish-error", "saving-draft"}
    THEN [kind |-> "editing",
          draft |-> Spread(s.draft, updates),
          original |-> s.original]
    ELSE s

\* Mutant: the updates are merged onto the original, not onto the draft.
updateDraftOntoOriginal(s, updates) ==
    IF s.kind \in {"editing", "draft-saved", "save-error", "publish-error"}
    THEN [kind |-> "editing",
          draft |-> Spread(s.original, updates),
          original |-> s.original]
    ELSE s

\* Mutant: the draft can be edited under the publish dialog.
updateDraftUnderPublishDialog(s, updates) ==
    IF s.kind \in {"editing", "draft-saved", "save-error", "publish-error",
                   "confirming-publish"}
    THEN [kind |-> IF s.kind = "confirming-publish" THEN s.kind ELSE "editing",
          draft |-> Spread(s.draft, updates),
          original |-> s.original]
    ELSE s

updateDraft(s, updates) ==
    IF s.kind \in {"editing", "draft-saved", "save-error", "publish-error"}
    THEN [kind |-> "editing",
          draft |-> Spread(s.draft, updates),
          original |-> s.original]
    ELSE s

\* Mutant: saving-draft is listed with the states that `break`.
startSaveDraftValidTwice(s) == s.kind \in {"editing", "save-error", "saving-draft"}

\* The first switch of startSaveDraft: TRUE on `break`, FALSE on `return`.
startSaveDraftValid(s) == s.kind \in {"editing", "save-error"}

savingDraftState(s) ==
    [kind |-> "saving-draft", draft |-> s.draft, original |-> s.original]

\* Mutant: the success branch keeps the old original.
draftSavedStateKeepsOriginal(s, date) ==
    [kind |-> "draft-saved",
     draft |-> Spread(s.draft, [savedAt |-> date]),
     original |-> s.original]

draftSavedState(s, date) ==
    [kind |-> "draft-saved",
     draft |-> Spread(s.draft, [savedAt |-> date]),
     original |-> s.draft]

\* Mutant: the failure branch falls back to the last saved draft.
saveErrorStateDropsDraft(s) ==
    [kind |-> "save-error",
     draft |-> s.original,
     original |-> s.original,
     error |-> SaveErrorMessage]

\* Mutant: the failure branch records the draft as the saved version.
saveErrorStatePromotesDraft(s) ==
    [kind |-> "save-error",
     draft |-> s.draft,
     original |-> s.draft,
     error |-> SaveErrorMessage]

\* Mutant: the failure branch repeats the busy tag.
saveErrorStateStaysBusy(s) ==
    [kind |-> "saving-draft",
     draft |-> s.draft,
     original |-> s.original,
     error |-> SaveErrorMessage]

saveErrorState(s) ==
    [kind |-> "save-error",
     draft |-> s.draft,
     original |-> s.original,
     error |-> SaveErrorMessage]

\* Mutant: the handler repeats the check of the Publish button.
openPublishConfirmationChecksFields(s) ==
    IF s.kind \in {"editing", "draft-saved"} /\ s.draft.title # "" /\ s.draft.content # ""
    THEN [kind |-> "confirming-publish", draft |-> s.draft, original |-> s.original]
    ELSE s

openPublishConfirmation(s) ==
    IF s.kind \in {"editing", "draft-saved"}
    THEN [kind |-> "confirming-publish", draft |-> s.draft, original |-> s.original]
    ELSE s

\* Mutant: editing is listed with the states that `break`.
confirmPublishValidFromEditing(s) == s.kind \in {"confirming-publish", "editing"}

\* The first switch of confirmPublish: TRUE on `break`, FALSE on `return`.
confirmPublishValid(s) == s.kind = "confirming-publish"

publishingState(s) ==
    [kind |-> "publishing", draft |-> s.draft, original |-> s.original]

\* Mutant: the success branch publishes the last saved version.
publishedStateOfOriginal(s, date) ==
    [kind |-> "published", post |-> Spread(s.original, [savedAt |-> date])]

publishedState(s, date) ==
    [kind |-> "published", post |-> Spread(s.draft, [savedAt |-> date])]

publishErrorState(s) ==
    [kind |-> "publish-error",
     draft |-> s.draft,
     original |-> s.original,
     error |-> PublishErrorMessage]

hasChanges(s) ==
    \/ s.draft.title # s.original.title
    \/ s.draft.content # s.original.content

\* Mutant: confirming-publish is listed with the states that may discard.
openDiscardConfirmationOverPublish(s) ==
    IF s.kind \in {"editing", "draft-saved", "confirming-publish"}
    THEN IF ~hasChanges(s)
         THEN [kind |-> "editing", draft |-> s.original, original |-> s.original]
         ELSE [kind |-> "confirming-discard", draft |-> s.draft, original |-> s.original]
    ELSE s

\* Mutant: the dialog is opened without looking for changes.
openDiscardConfirmationAlwaysAsks(s) ==
    IF s.kind \in {"editing", "draft-saved"}
    THEN [kind |-> "confirming-discard", draft |-> s.draft, original |-> s.original]
    ELSE s

\* Mutant: the test for changes is inverted.
openDiscardConfirmationInverted(s) ==
    IF s.kind \in {"editing", "draft-saved"}
    THEN IF hasChanges(s)
         THEN [kind |-> "editing", draft |-> s.original, original |-> s.original]
         ELSE [kind |-> "confirming-discard", draft |-> s.draft, original |-> s.original]
    ELSE s

openDiscardConfirmation(s) ==
    IF s.kind \in {"editing", "draft-saved"}
    THEN IF ~hasChanges(s)
         THEN [kind |-> "editing", draft |-> s.original, original |-> s.original]
         ELSE [kind |-> "confirming-discard", draft |-> s.draft, original |-> s.original]
    ELSE s

\* Mutant: the discard keeps the draft, as cancelModal does.
confirmDiscardKeepsDraft(s) ==
    IF s.kind = "confirming-discard"
    THEN [kind |-> "editing", draft |-> s.draft, original |-> s.original]
    ELSE s

confirmDiscard(s) ==
    IF s.kind = "confirming-discard"
    THEN [kind |-> "editing", draft |-> s.original, original |-> s.original]
    ELSE s

\* Mutant: the busy states are listed with the modal states.
cancelModalWhileBusy(s) ==
    IF s.kind \in {"confirming-publish", "confirming-discard", "saving-draft", "publishing"}
    THEN [kind |-> "editing", draft |-> s.draft, original |-> s.original]
    ELSE s

\* Mutant: cancelling resets the draft, as confirmDiscard does.
cancelModalDiscards(s) ==
    IF s.kind \in {"confirming-publish", "confirming-discard"}
    THEN [kind |-> "editing", draft |-> s.original, original |-> s.original]
    ELSE s

\* Mutant: the confirming-publish case is missing from the modal states.
cancelModalOnlyDiscard(s) ==
    IF s.kind = "confirming-discard"
    THEN [kind |-> "editing", draft |-> s.draft, original |-> s.original]
    ELSE s

cancelModal(s) ==
    IF s.kind \in {"confirming-publish", "confirming-discard"}
    THEN [kind |-> "editing", draft |-> s.draft, original |-> s.original]
    ELSE s

\* Mutant: published is handled as a dismissable state.
dismissErrorAfterPublish(s) ==
    IF s.kind \in {"save-error", "publish-error"}
    THEN [kind |-> "editing", draft |-> s.draft, original |-> s.original]
    ELSE IF s.kind = "published"
    THEN [kind |-> "editing",
          draft |-> [title |-> s.post.title, content |-> s.post.content],
          original |-> [title |-> s.post.title, content |-> s.post.content]]
    ELSE s

\* Mutant: the message stays on the state that is dismissed to.
dismissErrorKeepsMessage(s) ==
    IF s.kind \in {"save-error", "publish-error"}
    THEN [kind |-> "editing", draft |-> s.draft, original |-> s.original, error |-> s.error]
    ELSE s

dismissError(s) ==
    IF s.kind \in {"save-error", "publish-error"}
    THEN [kind |-> "editing", draft |-> s.draft, original |-> s.original]
    ELSE s

\* The `disabled` attribute of the Publish button, for a state with a draft.
publishButtonDisabled(s) ==
    \/ s.draft.title = ""
    \/ s.draft.content = ""
    \/ s.kind = "saving-draft"
    \/ s.kind = "publishing"

\* ------------------------------------------------------------------------
\* The case labels of each switch on state.kind; a tag outside them takes
\* the default branch, which calls assertNever and throws.
\* ------------------------------------------------------------------------

updateDraftCases ==
    {"editing", "draft-saved", "save-error", "publish-error",
     "saving-draft", "publishing", "confirming-publish", "confirming-discard",
     "published"}

startSaveDraftCases ==
    {"editing", "save-error",
     "draft-saved", "saving-draft", "publishing", "confirming-publish",
     "confirming-discard", "publish-error", "published"}

openPublishConfirmationCases ==
    {"editing", "draft-saved",
     "saving-draft", "publishing", "confirming-publish", "confirming-discard",
     "save-error", "publish-error", "published"}

confirmPublishCases ==
    {"confirming-publish",
     "editing", "draft-saved", "saving-draft", "publishing",
     "confirming-discard", "save-error", "publish-error", "published"}

openDiscardConfirmationCases ==
    {"editing", "draft-saved",
     "saving-draft", "publishing", "confirming-publish", "confirming-discard",
     "save-error", "publish-error", "published"}

confirmDiscardCases ==
    {"confirming-discard",
     "editing", "draft-saved", "saving-draft", "publishing",
     "confirming-publish", "save-error", "publish-error", "published"}

cancelModalCases ==
    {"confirming-publish", "confirming-discard",
     "editing", "draft-saved", "saving-draft", "publishing", "save-error",
     "publish-error", "published"}

dismissErrorCases ==
    {"save-error", "publish-error",
     "editing", "draft-saved", "saving-draft", "publishing",
     "confirming-publish", "confirming-discard", "published"}

\* Mutant: the draft-saved label is missing from the editor branch.
renderCasesWithoutDraftSaved ==
    {"published",
     "editing", "saving-draft", "publishing", "confirming-publish",
     "confirming-discard", "save-error", "publish-error"}

renderCases ==
    {"published",
     "editing", "saving-draft", "publishing", "confirming-publish",
     "confirming-discard", "save-error", "publish-error", "draft-saved"}

\* Whether a switch over the case labels `cases` throws for the state `s`.
assertNever(s, cases) == s.kind \notin cases

\* ------------------------------------------------------------------------
\* PostEditorBefore: handlers as functions of the values `b` they close over
\* ------------------------------------------------------------------------

\* useState<Date | null>(null)
Null == 0

InitialBefore ==
    [title |-> "", content |-> "",
     originalTitle |-> "", originalContent |-> "",
     isLoading |-> FALSE, isSaving |-> FALSE, isPublishing |-> FALSE,
     hasError |-> FALSE, errorMessage |-> "",
     showPublishModal |-> FALSE, showDiscardModal |-> FALSE,
     showSuccessMessage |-> FALSE,
     isDirty |-> FALSE, lastSavedAt |-> Null]

hasUnsavedChanges(b) ==
    b.title # b.originalTitle \/ b.content # b.originalContent

handleTitleChange(b, value) ==
    [b EXCEPT !.title = value, !.isDirty = TRUE,
              !.showSuccessMessage = FALSE, !.hasError = FALSE]

handleContentChange(b, value) ==
    [b EXCEPT !.content = value, !.isDirty = TRUE,
              !.showSuccessMessage = FALSE, !.hasError = FALSE]

\* The guard of handleSaveDraft: TRUE when it goes on, FALSE on `return`.
handleSaveDraftGoesOn(b) == ~(b.isSaving \/ b.isPublishing)

\* handleSaveDraft up to its await.
handleSaveDraftStart(b) ==
    [b EXCEPT !.isSaving = TRUE, !.hasError = FALSE, !.showSuccessMessage = FALSE]

\* The try and finally blocks of handleSaveDraft, applied to the current
\* values `cur` with the title and content of the closure `b`.
handleSaveDraftResolved(cur, b, date) ==
    [cur EXCEPT !.originalTitle = b.title, !.originalContent = b.content,
                !.isDirty = FALSE, !.lastSavedAt = date,
                !.showSuccessMessage = TRUE, !.isSaving = FALSE]

\* The catch and finally blocks of handleSaveDraft.
handleSaveDraftRejected(cur) ==
    [cur EXCEPT !.hasError = TRUE, !.errorMessage = "Failed to save draft",
                !.isSaving = FALSE]

handlePublishClick(b) ==
    [b EXCEPT !.showPublishModal = TRUE]

\* Mutant: handleConfirmPublish starts with the guard of handleSaveDraft.
handleConfirmPublishGoesOnIfIdle(b) == ~(b.isSaving \/ b.isPublishing)

\* handleConfirmPublish has no guard: it goes on whatever the flags are.
handleConfirmPublishGoesOn(b) == TRUE

\* Mutant: handleConfirmPublish hides the success banner, as handleSaveDraft does.
handleConfirmPublishStartHidesSuccess(b) ==
    [b EXCEPT !.showPublishModal = FALSE, !.isPublishing = TRUE, !.hasError = FALSE,
              !.showSuccessMessage = FALSE]

\* handleConfirmPublish up to its await.
handleConfirmPublishStart(b) ==
    [b EXCEPT !.showPublishModal = FALSE, !.isPublishing = TRUE, !.hasError = FALSE]

\* The try and finally blocks of handleConfirmPublish.
handleConfirmPublishResolved(cur, b) ==
    [cur EXCEPT !.originalTitle = b.title, !.originalContent = b.content,
                !.isDirty = FALSE, !.showSuccessMessage = TRUE,
                !.isPublishing = FALSE]

\* The catch and finally blocks of handleConfirmPublish.
handleConfirmPublishRejected(cur) ==
    [cur EXCEPT !.hasError = TRUE, !.errorMessage = "Failed to publish",
                !.isPublishing = FALSE]

handleConfirmDiscard(b) ==
    [b EXCEPT !.showDiscardModal = FALSE,
              !.title = b.originalTitle, !.content = b.originalContent,
              !.isDirty = FALSE, !.hasError = FALSE, !.showSuccessMessage = FALSE]

\* Mutant: asking to discard closes the publish dialog first.
handleDiscardClickClosesPublish(b) ==
    IF hasUnsavedChanges(b)
    THEN [b EXCEPT !.showDiscardModal = TRUE, !.showPublishModal = FALSE]
    ELSE handleConfirmDiscard(b)

handleDiscardClick(b) ==
    IF hasUnsavedChanges(b)
    THEN [b EXCEPT !.showDiscardModal = TRUE]
    ELSE handleConfirmDiscard(b)

handleCancelModal(b) ==
    [b EXCEPT !.showPublishModal = FALSE, !.showDiscardModal = FALSE]

\* onClick of the Dismiss button of the error banner.
dismissErrorBanner(b) ==
    [b EXCEPT !.hasError = FALSE]

\* The `disabled` attribute of both inputs and of the Discard button.
busyDisabled(b) == b.isSaving \/ b.isPublishing

saveButtonDisabled(b) == b.isSaving \/ b.isPublishing \/ ~hasUnsavedChanges(b)

publishButtonDisabledBefore(b) ==
    b.isSaving \/ b.isPublishing \/ b.title = "" \/ b.content = ""

\* ------------------------------------------------------------------------
\* Actions
\* ------------------------------------------------------------------------

\* A walk through the eight tags other than published, ending in editing.
TourOrder ==
    <<"confirming-discard", "saving-draft", "save-error", "draft-saved",
      "confirming-publish", "publishing", "publish-error", "editing">>

InitAfter ==
    /\ state = InitialState
    /\ pending = <<>>
    /\ lastOp = "mount"
    /\ lastUpdates = NoUpdates
    /\ prevKind = "none"
    /\ persisted = [title |-> "", content |-> ""]
    /\ asked = NoRequest
    /\ touring = FALSE
    /\ tour = 0

InitBefore ==
    /\ before = InitialBefore
    /\ beforePending = <<>>
    /\ beforeLastOp = "mount"

Init ==
    /\ InitAfter
    /\ InitBefore

\* What the history variables record of a step to the state `next`.
Observe(name, updates, next) ==
    /\ lastOp' = name
    /\ lastUpdates' = updates
    /\ prevKind' = state.kind
    /\ asked' = IF name = "openPublishConfirmation" /\ state.kind # "confirming-publish"
                   /\ next.kind = "confirming-publish"
                THEN TitleContent(state.draft)
                ELSE IF next.kind \in {"confirming-publish", "publishing", "published"}
                THEN asked
                ELSE NoRequest
    /\ UNCHANGED beforeVars
    /\ UNCHANGED touring
    /\ tour' = IF touring /\ tour < Len(TourOrder) /\ next.kind = TourOrder[tour + 1]
               THEN tour + 1
               ELSE tour

\* A synchronous handler: setState(handler(state)), or nothing on `return`.
Sync(name, next) ==
    /\ state' = next
    /\ Observe(name, NoUpdates, next)
    /\ UNCHANGED <<pending, persisted>>

UpdateDraft ==
    \E updates \in PartialPostData :
        /\ state' = updateDraft(state, updates)
        /\ Observe("updateDraft", updates, updateDraft(state, updates))
        /\ UNCHANGED <<pending, persisted>>

\* An asynchronous handler up to its `await`: on a valid state it sets the
\* busy state and calls the API; the promise stays pending with the closure.
Async(name, valid, busy, api) ==
    /\ Len(pending) < MaxPending
    /\ Observe(name, NoUpdates, IF valid THEN busy ELSE state)
    /\ UNCHANGED persisted
    /\ IF valid
       THEN /\ state' = busy
            /\ pending' = Append(pending, [api |-> api, closure |-> state])
       ELSE UNCHANGED <<state, pending>>

StartSaveDraft ==
    Async("startSaveDraft", startSaveDraftValid(state), savingDraftState(state), "save")

OpenPublishConfirmation ==
    Sync("openPublishConfirmation", openPublishConfirmation(state))

ConfirmPublish ==
    Async("confirmPublish", confirmPublishValid(state), publishingState(state), "publish")

OpenDiscardConfirmation ==
    Sync("openDiscardConfirmation", openDiscardConfirmation(state))

ConfirmDiscard ==
    Sync("confirmDiscard", confirmDiscard(state))

CancelModal ==
    Sync("cancelModal", cancelModal(state))

DismissError ==
    Sync("dismissError", dismissError(state))

Without(seq, i) == SubSeq(seq, 1, i - 1) \o SubSeq(seq, i + 1, Len(seq))

\* The continuation after `await`: it writes the state computed from the
\* closure of the handler, without looking at the current state.
Settle(i, name, next) ==
    /\ state' = next
    /\ pending' = Without(pending, i)
    /\ Observe(name, NoUpdates, next)

SaveResolved ==
    \E i \in 1..Len(pending), date \in Dates :
        /\ pending[i].api = "save"
        /\ Settle(i, "saveResolved", draftSavedState(pending[i].closure, date))
        /\ persisted' = [title |-> pending[i].closure.draft.title,
                         content |-> pending[i].closure.draft.content]

SaveRejected ==
    \E i \in 1..Len(pending) :
        /\ pending[i].api = "save"
        /\ Settle(i, "saveRejected", saveErrorState(pending[i].closure))
        /\ UNCHANGED persisted

PublishResolved ==
    \E i \in 1..Len(pending), date \in Dates :
        /\ pending[i].api = "publish"
        /\ Settle(i, "publishResolved", publishedState(pending[i].closure, date))
        /\ UNCHANGED persisted

PublishRejected ==
    \E i \in 1..Len(pending) :
        /\ pending[i].api = "publish"
        /\ Settle(i, "publishRejected", publishErrorState(pending[i].closure))
        /\ UNCHANGED persisted

\* A synchronous handler of PostEditorBefore, with its setState calls
\* applied together.
SyncBefore(name, next) ==
    /\ before' = next
    /\ beforeLastOp' = name
    /\ UNCHANGED beforePending
    /\ UNCHANGED afterVars

HandleTitleChange ==
    \E value \in Strings :
        /\ ~busyDisabled(before)
        /\ SyncBefore("handleTitleChange", handleTitleChange(before, value))

HandleContentChange ==
    \E value \in Strings :
        /\ ~busyDisabled(before)
        /\ SyncBefore("handleContentChange", handleContentChange(before, value))

\* An asynchronous handler of PostEditorBefore up to its await.
AsyncBefore(name, goesOn, next, api) ==
    /\ Len(beforePending) < MaxPending
    /\ beforeLastOp' = name
    /\ UNCHANGED afterVars
    /\ IF goesOn
       THEN /\ before' = next
            /\ beforePending' = Append(beforePending, [api |-> api, closure |-> before])
       ELSE UNCHANGED <<before, beforePending>>

HandleSaveDraft ==
    /\ ~saveButtonDisabled(before)
    /\ AsyncBefore("handleSaveDraft", handleSaveDraftGoesOn(before),
                   handleSaveDraftStart(before), "save")

HandlePublishClick ==
    /\ ~publishButtonDisabledBefore(before)
    /\ SyncBefore("handlePublishClick", handlePublishClick(before))

HandleConfirmPublish ==
    /\ before.showPublishModal
    /\ AsyncBefore("handleConfirmPublish", handleConfirmPublishGoesOn(before),
                   handleConfirmPublishStart(before), "publish")

HandleDiscardClick ==
    /\ ~busyDisabled(before)
    /\ SyncBefore("handleDiscardClick", handleDiscardClick(before))

HandleConfirmDiscard ==
    /\ before.showDiscardModal
    /\ SyncBefore("handleConfirmDiscard", handleConfirmDiscard(before))

HandleCancelModal ==
    /\ before.showPublishModal \/ before.showDiscardModal
    /\ SyncBefore("handleCancelModal", handleCancelModal(before))

DismissErrorBanner ==
    /\ before.hasError
    /\ SyncBefore("dismissErrorBanner", dismissErrorBanner(before))

\* The continuation of an asynchronous handler of PostEditorBefore: its
\* setters overwrite the flags they name and leave the others as they are.
SettleBefore(i, name, next) ==
    /\ before' = next
    /\ beforePending' = Without(beforePending, i)
    /\ beforeLastOp' = name
    /\ UNCHANGED afterVars

SaveResolvedBefore ==
    \E i \in 1..Len(beforePending), date \in Dates :
        /\ beforePending[i].api = "save"
        /\ SettleBefore(i, "saveResolved",
                        handleSaveDraftResolved(before, beforePending[i].closure, date))

SaveRejectedBefore ==
    \E i \in 1..Len(beforePending) :
        /\ beforePending[i].api = "save"
        /\ SettleBefore(i, "saveRejected", handleSaveDraftRejected(before))

PublishResolvedBefore ==
    \E i \in 1..Len(beforePending) :
        /\ beforePending[i].api = "publish"
        /\ SettleBefore(i, "publishResolved",
                        handleConfirmPublishResolved(before, beforePending[i].closure))

PublishRejectedBefore ==
    \E i \in 1..Len(beforePending) :
        /\ beforePending[i].api = "publish"
        /\ SettleBefore(i, "publishRejected", handleConfirmPublishRejected(before))

NextBefore ==
    \/ HandleTitleChange
    \/ HandleContentChange
    \/ HandleSaveDraft
    \/ HandlePublishClick
    \/ HandleConfirmPublish
    \/ HandleDiscardClick
    \/ HandleConfirmDiscard
    \/ HandleCancelModal
    \/ DismissErrorBanner
    \/ SaveResolvedBefore
    \/ SaveRejectedBefore
    \/ PublishResolvedBefore
    \/ PublishRejectedBefore

SpecBefore == Init /\ [][NextBefore]_vars

Next ==
    \/ UpdateDraft
    \/ StartSaveDraft
    \/ OpenPublishConfirmation
    \/ ConfirmPublish
    \/ OpenDiscardConfirmation
    \/ ConfirmDiscard
    \/ CancelModal
    \/ DismissError
    \/ SaveResolved
    \/ SaveRejected
    \/ PublishResolved
    \/ PublishRejected

Spec == Init /\ [][Next]_vars

\* fakeSaveApi and fakePublishApi settle every promise from a timer, so a
\* pending call is eventually resolved or rejected.
\* The same component with the walk along TourOrder recorded.
InitTour ==
    /\ state = InitialState
    /\ pending = <<>>
    /\ lastOp = "mount"
    /\ lastUpdates = NoUpdates
    /\ prevKind = "none"
    /\ persisted = [title |-> "", content |-> ""]
    /\ asked = NoRequest
    /\ touring = TRUE
    /\ tour = 0
    /\ InitBefore

SpecTour == InitTour /\ [][Next]_vars

FairSpec ==
    /\ Spec
    /\ WF_vars(SaveResolved \/ SaveRejected)
    /\ WF_vars(PublishResolved \/ PublishRejected)

\* ------------------------------------------------------------------------
\* Properties
\* ------------------------------------------------------------------------

UserOps ==
    {"updateDraft", "startSaveDraft", "openPublishConfirmation", "confirmPublish",
     "openDiscardConfirmation", "confirmDiscard", "cancelModal", "dismissError"}

BusyKinds == {"saving-draft", "publishing"}

\* The legality table of the transition operations.
LegalFrom ==
    [updateDraft |-> {"editing", "draft-saved", "save-error", "publish-error"},
     startSaveDraft |-> {"editing", "save-error"},
     openPublishConfirmation |-> {"editing", "draft-saved"},
     confirmPublish |-> {"confirming-publish"},
     openDiscardConfirmation |-> {"editing", "draft-saved"},
     confirmDiscard |-> {"confirming-discard"},
     cancelModal |-> {"confirming-publish", "confirming-discard"},
     dismissError |-> {"save-error", "publish-error"}]

\* C1: a transition operation invoked while the tag is outside its
\* legal-from set leaves the whole state value unchanged and starts no
\* asynchronous call.
C1_IllegalCallIsNoOp ==
    [][(lastOp' \in UserOps /\ state.kind \notin LegalFrom[lastOp'])
          => (state' = state /\ pending' = pending)]_vars

\* confirmPublish has been invoked while editing, and the state is editing.
C1_Witness == lastOp = "confirmPublish" /\ state.kind = "editing"

\* C2: one tag is active at a time, and a second dialog cannot be opened
\* over an open one: openDiscardConfirmation from confirming-publish and
\* openPublishConfirmation from confirming-discard leave the state as it is.
C2_OneDialogAtATime ==
    [][/\ state'.kind \in Kinds
       /\ (lastOp' = "openDiscardConfirmation" /\ state.kind = "confirming-publish")
             => state' = state
       /\ (lastOp' = "openPublishConfirmation" /\ state.kind = "confirming-discard")
             => state' = state]_vars

\* openDiscardConfirmation has been invoked over the publish dialog, with
\* unsaved changes in the draft.
C2_Witness ==
    /\ lastOp = "openDiscardConfirmation"
    /\ state.kind = "confirming-publish"
    /\ hasChanges(state)

\* C3: published is terminal: no call is in flight once the state is
\* published, and no step changes the state value.
C3_PublishedIsTerminal ==
    [][state.kind = "published" => (pending = <<>> /\ state' = state)]_vars

\* updateDraft has been invoked after the post was published.
C3_Witness == state.kind = "published" /\ lastOp = "updateDraft"

\* C4: while the tag is saving-draft or publishing every user operation
\* is a no-op, and the state changes only by the completion of the call in
\* flight for that tag.
C4_BusyRejectsUserOps ==
    [][state.kind \in BusyKinds =>
         /\ lastOp' \in UserOps => (state' = state /\ pending' = pending)
         /\ state' # state =>
               lastOp' \in (IF state.kind = "saving-draft"
                            THEN {"saveResolved", "saveRejected"}
                            ELSE {"publishResolved", "publishRejected"})]_vars

\* openDiscardConfirmation has been invoked while publishing.
C4_Witness == state.kind = "publishing" /\ lastOp = "openDiscardConfirmation"

\* C5: a call is in flight exactly when the tag is busy, there is one of
\* it, and it is a save under saving-draft and a publish under publishing.
C5_AtMostOneCallInFlight ==
    /\ Len(pending) = (IF state.kind \in BusyKinds THEN 1 ELSE 0)
    /\ \A i \in 1..Len(pending) :
          pending[i].api = (IF state.kind = "saving-draft" THEN "save" ELSE "publish")

\* A save has been requested while a publish is in flight.
C5_Witness ==
    /\ state.kind = "publishing"
    /\ Len(pending) = 1
    /\ lastOp = "startSaveDraft"

\* C6: in every state in which a completion can be applied, the state is
\* the busy state of that call and holds the draft and original of the
\* closure the call was started from.
C6_CompletionSeesInitiatingState ==
    \A i \in 1..Len(pending) :
        /\ state.kind = (IF pending[i].api = "save" THEN "saving-draft" ELSE "publishing")
        /\ state.draft = pending[i].closure.draft
        /\ state.original = pending[i].closure.original

\* A save retried from save-error is in flight with unsaved changes, and
\* the user has tried to edit meanwhile.
C6_Witness ==
    /\ Len(pending) = 1
    /\ pending[1].closure.kind = "save-error"
    /\ hasChanges(pending[1].closure)
    /\ lastOp = "updateDraft"

ErrorKinds == {"save-error", "publish-error"}

\* C7: the payload shape is fully determined by the tag: an error message
\* only in save-error and publish-error, a savedAt on the draft only in
\* draft-saved and on the post in published, and nothing else.
C7_PayloadShapeByTag ==
    /\ DOMAIN state =
          (IF state.kind = "published" THEN {"kind", "post"}
           ELSE IF state.kind \in ErrorKinds THEN {"kind", "draft", "original", "error"}
           ELSE {"kind", "draft", "original"})
    /\ state.kind = "published" =>
          DOMAIN state.post = PostFields \cup {"savedAt"}
    /\ state.kind # "published" =>
          DOMAIN state.draft =
              (IF state.kind = "draft-saved" THEN PostFields \cup {"savedAt"} ELSE PostFields)

\* C8: startSaveDraft from editing or save-error yields saving-draft with
\* the same draft and original and one save call; a successful save yields
\* draft-saved whose draft has the same title and content plus a savedAt,
\* and whose original has the title and content of the draft given to the
\* save call.
C8_SaveSuccessPath ==
    [][/\ (lastOp' = "startSaveDraft" /\ state.kind \in {"editing", "save-error"}) =>
             /\ state' = [kind |-> "saving-draft",
                          draft |-> state.draft,
                          original |-> state.original]
             /\ Len(pending') = Len(pending) + 1
             /\ pending'[Len(pending')].api = "save"
             /\ pending'[Len(pending')].closure.draft = state.draft
       /\ lastOp' = "saveResolved" =>
             /\ DOMAIN state' = {"kind", "draft", "original"}
             /\ state'.kind = "draft-saved"
             /\ DOMAIN state'.draft = PostFields \cup {"savedAt"}
             /\ state'.draft.title = state.draft.title
             /\ state'.draft.content = state.draft.content
             /\ state'.draft.savedAt \in Dates
             /\ \E i \in 1..Len(pending) :
                   /\ pending[i].api = "save"
                   /\ pending' = Without(pending, i)
                   /\ state'.original.title = pending[i].closure.draft.title
                   /\ state'.original.content = pending[i].closure.draft.content]_vars

\* A save of a draft that differed from the original has succeeded.
C8_Witness ==
    /\ lastOp = "saveResolved"
    /\ state.kind = "draft-saved"
    /\ state.original.title # ""
    /\ state.original.content # ""

\* C9: a failed save yields save-error with the draft and original the
\* state had before startSaveDraft was called and the fixed message.
C9_SaveFailurePath ==
    [][lastOp' = "saveRejected" =>
         /\ state' = [kind |-> "save-error",
                      draft |-> state.draft,
                      original |-> state.original,
                      error |-> "Failed to save draft. Please try again."]
         /\ \E i \in 1..Len(pending) :
               /\ pending[i].api = "save"
               /\ pending[i].closure.kind \in {"editing", "save-error"}
               /\ pending' = Without(pending, i)
               /\ state'.draft = pending[i].closure.draft
               /\ state'.original = pending[i].closure.original]_vars

\* A save of a draft with unsaved changes has failed.
C9_Witness ==
    /\ lastOp = "saveRejected"
    /\ state.kind = "save-error"
    /\ hasChanges(state)

\* C10: confirmPublish from confirming-publish yields publishing with the
\* same draft and original; a successful publish yields published whose
\* post has the draft's title and content; a failed publish yields
\* publish-error with the same draft and original and the fixed message.
C10_PublishPaths ==
    [][/\ (lastOp' = "confirmPublish" /\ state.kind = "confirming-publish") =>
             /\ state' = [kind |-> "publishing",
                          draft |-> state.draft,
                          original |-> state.original]
             /\ Len(pending') = Len(pending) + 1
             /\ pending'[Len(pending')].api = "publish"
             /\ pending'[Len(pending')].closure.draft = state.draft
       /\ lastOp' = "publishResolved" =>
             /\ DOMAIN state' = {"kind", "post"}
             /\ state'.kind = "published"
             /\ state'.post.title = state.draft.title
             /\ state'.post.content = state.draft.content
       /\ lastOp' = "publishRejected" =>
             /\ state' = [kind |-> "publish-error",
                          draft |-> state.draft,
                          original |-> state.original,
                          error |-> "Failed to publish. Please try again."]]_vars

\* A draft with unsaved changes in both fields has been published.
C10_Witness ==
    /\ lastOp = "publishResolved"
    /\ state.kind = "published"
    /\ state.post.title # ""
    /\ state.post.content # ""


\* C11: in every state that has an original, its title and content are
\* those given to the last save call that resolved (the empty draft before
\* any); only a resolved save changes original.
C11_OriginalIsLastPersisted ==
    [][/\ state.kind # "published" => TitleContent(state.original) = persisted
       /\ state'.kind # "published" => TitleContent(state'.original) = persisted'
       /\ (state.kind # "published" /\ state'.kind # "published"
             /\ lastOp' # "saveResolved") => state'.original = state.original]_vars

\* After a save of a non-empty draft, later changes were discarded.
C11_Witness ==
    /\ lastOp = "confirmDiscard"
    /\ prevKind = "confirming-discard"
    /\ persisted.title # ""
    /\ state.kind = "editing"

\* C12: updateDraft from editing, draft-saved, save-error or publish-error
\* yields editing; the draft has the supplied fields overwritten and every
\* other field kept, original is unchanged and no error message remains.
C12_UpdateDraftMerges ==
    [][(lastOp' = "updateDraft" /\ state.kind \in LegalFrom.updateDraft) =>
         /\ state'.kind = "editing"
         /\ DOMAIN state' = {"kind", "draft", "original"}
         /\ DOMAIN state'.draft = DOMAIN state.draft \cup DOMAIN lastUpdates'
         /\ \A f \in DOMAIN state'.draft :
               state'.draft[f] = IF f \in DOMAIN lastUpdates'
                                 THEN lastUpdates'[f]
                                 ELSE state.draft[f]
         /\ state'.original = state.original]_vars

\* After a failed publish only the title was edited, and the content typed
\* before is still in the draft.
C12_Witness ==
    /\ lastOp = "updateDraft"
    /\ prevKind = "publish-error"
    /\ DOMAIN lastUpdates = {"title"}
    /\ state.draft.content # state.original.content

ModalKinds == {"confirming-publish", "confirming-discard"}

\* C13: from editing with a draft that differs from original,
\* openDiscardConfirmation yields confirming-discard with the same draft
\* and original, and confirmDiscard then yields editing with draft equal to
\* original and original unchanged.
C13_DiscardRoundTrip ==
    [][/\ (lastOp' = "openDiscardConfirmation" /\ state.kind = "editing"
             /\ hasChanges(state)) =>
             state' = [kind |-> "confirming-discard",
                       draft |-> state.draft,
                       original |-> state.original]
       /\ (lastOp' = "confirmDiscard" /\ state.kind = "confirming-discard") =>
             state' = [kind |-> "editing",
                       draft |-> state.original,
                       original |-> state.original]]_vars

\* The discard dialog has been confirmed and the draft is the original.
C13_Witness ==
    /\ lastOp = "confirmDiscard"
    /\ prevKind = "confirming-discard"
    /\ state.kind = "editing"
    /\ state.draft = state.original

\* C14: openDiscardConfirmation from editing or draft-saved with the
\* draft's title and content equal to original's yields editing with the
\* same title and content, not confirming-discard.
C14_NoChangeDiscardShortCircuit ==
    [][(lastOp' = "openDiscardConfirmation"
          /\ state.kind \in {"editing", "draft-saved"} /\ ~hasChanges(state)) =>
         /\ state'.kind = "editing"
         /\ TitleContent(state'.draft) = TitleContent(state.draft)
         /\ state'.original = state.original]_vars

\* Discard has been requested right after a save of a non-empty draft.
C14_Witness ==
    /\ lastOp = "openDiscardConfirmation"
    /\ prevKind = "draft-saved"
    /\ state.kind = "editing"
    /\ state.draft.title # ""

\* C15: a dialog opens with the draft and original of the state it was
\* opened from, and cancelModal from either dialog yields editing with the
\* draft and original unchanged.
C15_CancelModalKeepsEdits ==
    [][/\ (lastOp' \in {"openPublishConfirmation", "openDiscardConfirmation"}
             /\ state.kind \notin ModalKinds /\ state'.kind \in ModalKinds) =>
             /\ state'.draft = state.draft
             /\ state'.original = state.original
       /\ (lastOp' = "cancelModal" /\ state.kind \in ModalKinds) =>
             state' = [kind |-> "editing",
                       draft |-> state.draft,
                       original |-> state.original]]_vars

\* The discard dialog has been cancelled and the unsaved changes are kept.
C15_Witness ==
    /\ lastOp = "cancelModal"
    /\ prevKind = "confirming-discard"
    /\ state.kind = "editing"
    /\ hasChanges(state)

\* C16: dismissError from save-error or publish-error yields editing with
\* the draft and original unchanged and no error message.
C16_DismissErrorKeepsEdits ==
    [][(lastOp' = "dismissError" /\ state.kind \in ErrorKinds) =>
         /\ "error" \notin DOMAIN state'
         /\ state' = [kind |-> "editing",
                      draft |-> state.draft,
                      original |-> state.original]]_vars

\* A save error has been dismissed and the unsaved changes are kept.
C16_Witness ==
    /\ lastOp = "dismissError"
    /\ prevKind = "save-error"
    /\ state.kind = "editing"
    /\ hasChanges(state)

\* C17: from every state with an idle tag other than editing and published
\* some step leads to editing, and from every busy state some step leads to
\* an error state, from which the former applies; so every tag other than
\* published can return to editing.  That each of the eight tags is
\* reached is shown by the walk of C17_Witness.
C17_CanReturnToEditing ==
    /\ state.kind \in (Kinds \ ({"published", "editing"} \cup BusyKinds)) =>
          ENABLED (Next /\ state'.kind = "editing")
    /\ state.kind \in BusyKinds =>
          ENABLED (Next /\ state'.kind \in ErrorKinds)

\* One behaviour has visited confirming-discard, saving-draft, save-error,
\* draft-saved, confirming-publish, publishing and publish-error in turn
\* and is back in editing.
C17_Witness == tour = Len(TourOrder) /\ state.kind = "editing"

\* C18: given that every call settles, saving-draft is always followed by
\* draft-saved or save-error, and publishing by published or
\* publish-error.
C18_BusyEventuallyCompletes ==
    /\ (state.kind = "saving-draft") ~> (state.kind \in {"draft-saved", "save-error"})
    /\ (state.kind = "publishing") ~> (state.kind \in {"published", "publish-error"})

\* cancelModal has been tried while a save is in flight, which goes on.
C18_Witness ==
    /\ state.kind = "saving-draft"
    /\ lastOp = "cancelModal"
    /\ Len(pending) = 1

\* C19: the handlers do not look at publish eligibility: with a draft for
\* which the Publish button is disabled, openPublishConfirmation from
\* editing or draft-saved still yields confirming-publish, confirmPublish
\* still starts the publish of that draft, and its success publishes it.
C19_NoEligibilityCheckInHandlers ==
    [][/\ (lastOp' = "openPublishConfirmation"
             /\ state.kind \in {"editing", "draft-saved"}
             /\ publishButtonDisabled(state)) =>
             /\ state'.kind = "confirming-publish"
             /\ state'.draft = state.draft
       /\ (lastOp' = "confirmPublish" /\ state.kind = "confirming-publish"
             /\ publishButtonDisabled(state)) =>
             /\ state'.kind = "publishing"
             /\ pending'[Len(pending')].api = "publish"
             /\ pending'[Len(pending')].closure.draft = state.draft
       /\ (lastOp' = "publishResolved" /\ state.draft.title = ""
             /\ state.draft.content = "") =>
             /\ state'.kind = "published"
             /\ state'.post.title = ""
             /\ state'.post.content = ""]_vars

\* A post with an empty title and an empty content has been published
\* with nothing saved before.
C19_Witness ==
    /\ state.kind = "published"
    /\ state.post.title = ""
    /\ state.post.content = ""
    /\ persisted = [title |-> "", content |-> ""]
    /\ lastOp = "publishResolved"

\* C20: in PostEditorBefore nothing keeps the two dialogs apart:
\* handlePublishClick sets showPublishModal and handleDiscardClick with
\* unsaved changes sets showDiscardModal, each leaving every other flag,
\* the other dialog's included, as it is; so both can be open together.
C20_BothModalsCanOpen ==
    [][/\ beforeLastOp' = "handlePublishClick" =>
             before' = [before EXCEPT !.showPublishModal = TRUE]
       /\ (beforeLastOp' = "handleDiscardClick" /\ hasUnsavedChanges(before)) =>
             before' = [before EXCEPT !.showDiscardModal = TRUE]]_vars

\* Both dialogs are open, the discard dialog opened last.
C20_Witness ==
    /\ before.showPublishModal
    /\ before.showDiscardModal
    /\ beforeLastOp = "handleDiscardClick"

\* C21: in no reachable state does the render or any of the eight
\* handlers, were it invoked, take the default branch of its switch and
\* throw 'Unexpected state'.
C21_NoUnexpectedState ==
    /\ ~assertNever(state, renderCases)
    /\ ~assertNever(state, updateDraftCases)
    /\ ~assertNever(state, startSaveDraftCases)
    /\ ~assertNever(state, openPublishConfirmationCases)
    /\ ~assertNever(state, confirmPublishCases)
    /\ ~assertNever(state, openDiscardConfirmationCases)
    /\ ~assertNever(state, confirmDiscardCases)
    /\ ~assertNever(state, cancelModalCases)
    /\ ~assertNever(state, dismissErrorCases)

\* The success banner is rendered and a handler that does not apply to
\* draft-saved has just run.
C21_Witness ==
    /\ state.kind = "draft-saved"
    /\ prevKind = "draft-saved"
    /\ lastOp = "dismissError"

\* C22: every confirming-discard state has a draft that differs from
\* original in title or content, every draft-saved state has a draft whose
\* title and content equal original's, and confirming-discard is entered
\* only from editing, by openDiscardConfirmation.
C22_DiscardDialogOnlyWithChanges ==
    [][/\ state'.kind = "confirming-discard" => hasChanges(state')
       /\ state'.kind = "draft-saved" => ~hasChanges(state')
       /\ (state'.kind = "confirming-discard" /\ state.kind # "confirming-discard") =>
             /\ state.kind = "editing"
             /\ lastOp' = "openDiscardConfirmation"]_vars

\* The discard dialog is open over changes made after a save of a
\* non-empty draft.
C22_Witness ==
    /\ state.kind = "confirming-discard"
    /\ prevKind = "editing"
    /\ lastOp = "openDiscardConfirmation"
    /\ persisted.title # ""

\* C23: whenever the state is published, the post's title and content are
\* those of the draft with which the publish dialog was opened; under the
\* dialog and while publishing the draft is the one asked about.
C23_PublishedIsWhatWasAsked ==
    /\ state.kind = "published" => TitleContent(state.post) = asked
    /\ state.kind \in {"confirming-publish", "publishing"} =>
          TitleContent(state.draft) = asked

\* A draft that differs from the last saved version has been published,
\* and an edit has been tried since.
C23_Witness ==
    /\ state.kind = "published"
    /\ asked # persisted
    /\ asked = TitleContent(state.post)
    /\ lastOp = "updateDraft"

\* C24: in PostEditorBefore a save and a publish can be in flight
\* together: handleSaveDraft goes on under the open publish dialog, and
\* handleConfirmPublish, which does not look at isSaving, sets isPublishing
\* and calls the publish API while the save is pending.
C24_SaveAndPublishTogether ==
    [][/\ (beforeLastOp' = "handleSaveDraft" /\ ~before.isSaving /\ ~before.isPublishing) =>
             /\ before'.isSaving
             /\ before'.showPublishModal = before.showPublishModal
       /\ beforeLastOp' = "handleConfirmPublish" =>
             /\ before' = [before EXCEPT !.showPublishModal = FALSE,
                                         !.isPublishing = TRUE,
                                         !.hasError = FALSE]
             /\ before'.isSaving = before.isSaving
             /\ beforePending' =
                   Append(beforePending, [api |-> "publish", closure |-> before])]_vars

\* With a non-empty unsaved title and content, a save and a publish are
\* both pending, the publish started last.
C24_Witness ==
    /\ before.isSaving
    /\ before.isPublishing
    /\ Len(beforePending) = 2
    /\ beforeLastOp = "handleConfirmPublish"
    /\ before.title # ""
    /\ before.content # ""
    /\ hasUnsavedChanges(before)

\* C25: in PostEditorBefore the error banner and the success banner can
\* be shown together: handlePublishClick, handleConfirmPublish and the
\* failure of the publish leave showSuccessMessage as it is, and the
\* failure sets hasError.
C25_ErrorAndSuccessTogether ==
    [][/\ beforeLastOp' \in {"handlePublishClick", "handleConfirmPublish", "publishRejected"} =>
             before'.showSuccessMessage = before.showSuccessMessage
       /\ beforeLastOp' = "publishRejected" =>
             /\ before'.hasError
             /\ before'.errorMessage = "Failed to publish"]_vars

\* After a successful save a publish has failed, and both banners are
\* rendered.
C25_Witness ==
    /\ before.hasError
    /\ before.showSuccessMessage
    /\ before.errorMessage = "Failed to publish"
    /\ before.lastSavedAt # Null
    /\ beforeLastOp = "publishRejected"
    /\ beforePending = <<>>
====
